---------------------------- MODULE Spec2Model ----------------------------
(***************************************************************************)
(* Model of scripts/search.py: the actor resolver (get_actor_details,      *)
(* fetch_more_pages, get_another_page, match_name), the credit fetcher     *)
(* (get_actor_credits), the link enricher (get_links, get_imdb_link) and   *)
(* the intersection engine (handle_search).                                *)
(*                                                                         *)
(* Representation of Python values:                                        *)
(*   - a dict is a function; d.get(k, dflt) is Get(d, k, dflt);            *)
(*   - a str that the code slices, searches or compares is the sequence of *)
(*     its code points ("n.d." is <<110, 46, 100, 46>>);                   *)
(*   - a person's name is the sequence of its space-separated words;       *)
(*   - None is NoneId where an int is expected and the record None where a *)
(*     dict or list is expected.                                           *)
(***************************************************************************)
EXTENDS Integers, Sequences, FiniteSets, TLC

VARIABLES
    \* get_actor_credits (one call, stepped through its TV loop)
    cr_pc, cr_actor_id, cr_response, cr_movies, cr_tv_data, cr_i, cr_tv_shows,
    cr_result,
    \* get_actor_details (one call, its page fetches interleaved)
    ad_pc, ad_actor, ad_first, ad_extra, ad_fetched, ad_res, ad_data,
    ad_details,
    \* handle_search (one call, its link lookups completing in any order)
    hs_pc, actors, hs_first, hs_cast, actor_details, actor_credits,
    shared_movies, shared_tv, hs_batch, hs_res, hs_answers, movie_links,
    movies, tv_links, tv_shows, hs_return

credVars == <<cr_pc, cr_actor_id, cr_response, cr_movies, cr_tv_data, cr_i,
              cr_tv_shows, cr_result>>

resVars == <<ad_pc, ad_actor, ad_first, ad_extra, ad_fetched, ad_res, ad_data,
             ad_details>>

srchVars == <<hs_pc, actors, hs_first, hs_cast, actor_details, actor_credits,
              shared_movies, shared_tv, hs_batch, hs_res, hs_answers,
              movie_links, movies, tv_links, tv_shows, hs_return>>

vars == <<credVars, resVars, srchVars>>

\* what a call of one function leaves alone: the state of the other calls
notCred == <<resVars, srchVars>>
notRes == <<credVars, srchVars>>
notSrch == <<credVars, resVars>>

-----------------------------------------------------------------------------
(* Python values *)

\* None where a dict or a list is expected
None == [none |-> TRUE]

\* None where an int (a TMDB id) is expected; TMDB ids are positive
NoneId == 0

\* dict.get(k, dflt)
Get(d, k, dflt) == IF k \in DOMAIN d THEN d[k] ELSE dflt

\* d[k] = v
DictSet(d, k, v) == [x \in (DOMAIN d) \cup {k} |-> IF x = k THEN v ELSE d[x]]

\* s[:n]
Take(s, n) == SubSeq(s, 1, IF Len(s) < n THEN Len(s) ELSE n)

\* str.lower() on one code point
LowerChar(c) == IF c \in 65..90 THEN c + 32 ELSE c

\* str.lower()
LowerStr(s) == [i \in 1..Len(s) |-> LowerChar(s[i])]

\* sub in s
Contains(s, sub) ==
    \E i \in 0..(Len(s) - Len(sub)) : SubSeq(s, i + 1, i + Len(sub)) = sub

\* a < b on str: lexicographic by code point
RECURSIVE StrLess(_, _)
StrLess(a, b) ==
    IF b = <<>> THEN FALSE
    ELSE IF a = <<>> THEN TRUE
    ELSE IF Head(a) # Head(b) THEN Head(a) < Head(b)
    ELSE StrLess(Tail(a), Tail(b))

\* the lists of length at most n over S
SeqsUpTo(S, n) == UNION { [1..k -> S] : k \in 0..n }

\* "n.d."
ND == <<110, 46, 100, 46>>

\* the literals of character_filter: 'himself', 'herself', 'self'
SelfWords == << <<104, 105, 109, 115, 101, 108, 102>>,
                <<104, 101, 114, 115, 101, 108, 102>>,
                <<115, 101, 108, 102>> >>

-----------------------------------------------------------------------------
(* get_actor_credits *)

\* character_filter(character)
character_filter(character) ==
    IF character = <<>> THEN FALSE
    ELSE ~ \E i \in 1..Len(SelfWords) :
               Contains(LowerStr(character), SelfWords[i])

\* the value of the movies comprehension for one cast entry
MovieRecord(movie) ==
    [title     |-> Get(movie, "title", "None"),
     year      |-> Take(Get(movie, "release_date", ND), 4),
     character |-> Get(movie, "character", <<>>)]

\* the default handed to tv_shows.setdefault for one cast entry
TvRecord(tv) ==
    [title     |-> Get(tv, "name", "None"),
     year      |-> Take(Get(tv, "first_air_date", ND), 4),
     character |-> Get(tv, "character", <<>>),
     episodes  |-> Get(tv, "episode_count", 0)]

\* a faulty setdefault: plain assignment d[k] = v, so the last entry wins
SetDefault_overwrite(d, k, v) == DictSet(d, k, v)

\* dict.setdefault(k, v), for its effect on the dict
SetDefault(d, k, v) == IF k \in DOMAIN d THEN d ELSE DictSet(d, k, v)

\* the dict comprehension { movie.get('id'): {...} for movie in movie_data }
RECURSIVE BuildMovies(_, _)
BuildMovies(movie_data, acc) ==
    IF movie_data = <<>> THEN acc
    ELSE BuildMovies(Tail(movie_data),
                     DictSet(acc, Get(Head(movie_data), "id", NoneId),
                             MovieRecord(Head(movie_data))))

\* the loop  for tv in tv_data: tv_shows.setdefault(...)
RECURSIVE BuildTv(_, _)
BuildTv(tv_data, acc) ==
    IF tv_data = <<>> THEN acc
    ELSE BuildTv(Tail(tv_data),
                 SetDefault(acc, Get(Head(tv_data), "id", NoneId),
                            TvRecord(Head(tv_data))))

IsMovie(d) == Get(d, "media_type", "None") = "movie"
IsTv(d) == Get(d, "media_type", "None") = "tv"
KeepsCharacter(d) == character_filter(Get(d, "character", <<>>))

\* data after line 237: the cast, without the self-appearances
FilteredCast(response) == SelectSeq(response.body.cast, KeepsCharacter)

\* the early returns of get_actor_credits: no id, no JSON, no 'cast'
CreditsAbsent(actor_id, response) ==
    IF actor_id = NoneId THEN TRUE
    ELSE IF response.kind # "json" THEN TRUE
    ELSE "cast" \notin DOMAIN response.body

\* get_actor_credits(actor_id), given the upstream's answer
get_actor_credits(actor_id, response) ==
    IF CreditsAbsent(actor_id, response) THEN None
    ELSE [movies |-> BuildMovies(SelectSeq(FilteredCast(response), IsMovie), <<>>),
          tv     |-> BuildTv(SelectSeq(FilteredCast(response), IsTv), <<>>)]

-----------------------------------------------------------------------------
(* match_name *)

\* str.lower() on one word of a name
LowerWord(w) ==
    CASE w = "John"   -> "john"
      [] w = "Smith"  -> "smith"
      [] w = "Smyth"  -> "smyth"
      [] w = "Jane"   -> "jane"
      [] w = "Doe"    -> "doe"
      [] w = "Zzz"    -> "zzz"
      [] OTHER        -> w

\* name.lower()
LowerName(name) == [i \in 1..Len(name) |-> LowerWord(name[i])]

\* name.split(' '): the words of the name; [''] for the empty name
SplitName(name) == IF name = <<>> THEN <<"">> ELSE name

\* fuzz.partial_ratio(a, b) on the lower-case words used here (the values
\* fuzzywuzzy computes for them)
partial_ratio(a, b) ==
    LET pair == {a, b} IN
    CASE a = "" \/ b = ""           -> 0
      [] a = b                      -> 100
      [] pair = {"smith", "smyth"}  -> 80
      [] pair = {"john", "jane"}    -> 50
      [] pair = {"john", "doe"}     -> 33
      [] pair = {"jane", "doe"}     -> 33
      [] pair = {"john", "smith"}   -> 29
      [] pair = {"john", "smyth"}   -> 29
      [] OTHER                      -> 0

\* match_name(actor, entry)
match_name(actor, entry) ==
    LET search_string == SplitName(LowerName(actor))
        entry_names   == SplitName(LowerName(entry))
        last(s)       == s[Len(s)]
    IN  IF Len(search_string) = 1
        THEN LET first_name_score == partial_ratio(search_string[1], entry_names[1])
                 last_name_score  == partial_ratio(search_string[1], last(entry_names))
             IN  IF first_name_score > last_name_score
                 THEN first_name_score * 2
                 ELSE last_name_score * 2
        ELSE partial_ratio(search_string[1], entry_names[1])
             + partial_ratio(last(search_string), last(entry_names))

-----------------------------------------------------------------------------
(* get_actor_details, fetch_more_pages, get_another_page *)

\* the page cap of fetch_more_pages
PageCap == 12

\* the score a candidate's name must exceed
ScoreThreshold == 175

\* sorted(s, key, reverse=True), `less` holding the pairs <<i, j>> of indices
\* with key(s[i]) < key(s[j]): stable, elements with equal keys keep their
\* order.  InsertDesc places index x after the indices already sorted whose
\* key is not less than its own.
InsertDesc(sorted, x, less) ==
    LET k == Cardinality({ i \in 1..Len(sorted) : <<sorted[i], x>> \notin less })
    IN  SubSeq(sorted, 1, k) \o <<x>> \o SubSeq(sorted, k + 1, Len(sorted))

SortedDesc(s, less) ==
    LET f[i \in 0..Len(s)] ==
            IF i = 0 THEN <<>> ELSE InsertDesc(f[i - 1], i, less)
    IN  [j \in 1..Len(s) |-> s[f[Len(s)][j]]]

\* the pairs of indices of s
IndexPairs(s) == (1..Len(s)) \X (1..Len(s))

\* a.get('popularity', 0) < b.get('popularity', 0)
PopularityLess(a, b) == Get(a, "popularity", 0) < Get(b, "popularity", 0)

\* the default result {'id': None, 'name': actor}
DefaultDetails(actor) == [id |-> NoneId, name |-> actor]

\* range(2, pages) after the cap of fetch_more_pages
ExtraPages(total_pages) ==
    LET pages == IF total_pages > PageCap THEN PageCap ELSE total_pages
    IN  2..(pages - 1)

\* data.get('total_pages', 1) > 1
HasMorePages(body) == Get(body, "total_pages", 1) > 1

\* the concatenation of the page results, in page order (gather keeps the
\* order of its arguments)
RECURSIVE Extend(_, _, _)
Extend(data, res, pages) ==
    IF pages = {} THEN data
    ELSE LET p == CHOOSE q \in pages : \A r \in pages : q <= r
         IN  Extend(data \o res[p], res, pages \ {p})

IsActing(d) == Get(d, "known_for_department", "None") = "Acting"

\* lines 144-145: the candidates that survive both filters
Survivors(actor, data) ==
    LET Scores(d) == match_name(actor, Get(d, "name", <<>>)) > ScoreThreshold
    IN  SelectSeq(SelectSeq(data, IsActing), Scores)

\* line 150
ExactMatch(actor, data) ==
    LET Same(d) == LowerName(Get(d, "name", <<>>)) = LowerName(actor)
    IN  SelectSeq(data, Same)

\* lines 150-154: the chosen entry, data being the non-empty survivor list
PickEntry(actor, data) ==
    LET exact_match == ExactMatch(actor, data)
        sorted      == SortedDesc(data,
                           { ij \in IndexPairs(data) :
                               PopularityLess(data[ij[1]], data[ij[2]]) })
    IN  IF exact_match # <<>> /\ Len(actor) > 1 THEN exact_match[1]
        ELSE sorted[1]

\* lines 155-159 raise KeyError when the entry lacks one of these keys
DetailsRaises(entry) ==
    ~ ({"id", "name", "profile_path"} \subseteq DOMAIN entry)

\* lines 155-159
BuildDetails(entry) ==
    [id   |-> entry.id,
     name |-> entry.name,
     img  |-> IF entry.profile_path # ""
              THEN <<"https://image.tmdb.org/t/p/w185", entry.profile_path>>
              ELSE <<>>]

\* lines 143-161: from the collected candidates to the returned details
FinishDetails(actor, data) ==
    LET survivors == Survivors(actor, data) IN
    IF survivors = <<>> THEN [raised |-> FALSE, details |-> DefaultDetails(actor)]
    ELSE IF DetailsRaises(PickEntry(actor, survivors))
         THEN [raised |-> TRUE, details |-> DefaultDetails(actor)]
         ELSE [raised |-> FALSE,
               details |-> BuildDetails(PickEntry(actor, survivors))]

\* page p of the search, when the upstream answers it properly: one candidate,
\* whose id tells the page
OkPage(p) ==
    [kind |-> "json",
     body |-> [results |-> << [id |-> 100 + p, name |-> <<"John", "Smith">>,
                               known_for_department |-> "Acting",
                               popularity |-> p, profile_path |-> "/p.jpg"] >>]]

\* how the upstream answers the pages 2.. : all properly, page 2 with no
\* JSON, or page 3 with JSON that has no 'results'
ExtraWorlds == {"proper", "page2_not_json", "page3_no_results"}

\* the response to page p in world w
ExtraResponse(w, p) ==
    IF w = "page2_not_json" /\ p = 2 THEN [kind |-> "nonjson"]
    ELSE IF w = "page3_no_results" /\ p = 3
         THEN [kind |-> "json", body |-> [status_code |-> 25]]
         ELSE OkPage(p)

\* get_another_page raises KeyError: the page is JSON without 'results'
PageRaises(response) ==
    IF response.kind # "json" THEN FALSE
    ELSE "results" \notin DOMAIN response.body

\* what get_another_page returns otherwise: [] for no JSON, else the results
PageResults(response) ==
    IF response.kind # "json" THEN <<>> ELSE response.body.results

\* the first response ends the call at once: no JSON, no 'results' (KeyError)
\* or an empty result list
FirstEnds(first) ==
    IF first.kind # "json" THEN TRUE
    ELSE IF "results" \notin DOMAIN first.body THEN TRUE
    ELSE first.body.results = <<>>

\* lines 125-132, FirstEnds(first) holding
FirstOutcome(actor, first) ==
    IF first.kind # "json" THEN [raised |-> FALSE, details |-> DefaultDetails(actor)]
    ELSE IF "results" \notin DOMAIN first.body
         THEN [raised |-> TRUE, details |-> DefaultDetails(actor)]
         ELSE [raised |-> FALSE, details |-> DefaultDetails(actor)]

\* get_actor_details(actor), given the upstream's answers: the first response
\* and the world that answers the further pages
get_actor_details(actor, first, extra) ==
    IF FirstEnds(first) THEN FirstOutcome(actor, first)
    ELSE IF ~ HasMorePages(first.body)
         THEN FinishDetails(actor, first.body.results)
    ELSE LET pages == ExtraPages(first.body.total_pages) IN
         IF \E p \in pages : PageRaises(ExtraResponse(extra, p))
         THEN [raised |-> TRUE, details |-> DefaultDetails(actor)]
         ELSE FinishDetails(actor,
                 Extend(first.body.results,
                        [p \in pages |->
                            PageResults(ExtraResponse(extra, p))], pages))

-----------------------------------------------------------------------------
(* One call of get_actor_details, the page fetches completing in any order *)

\* the largest total_pages the upstream reports here
MaxTotalPages == 13

\* the longest result list of the first page here
MaxResults == 2

\* entries of /search/person
CandidatePool ==
    { [id |-> 1, name |-> <<"John", "Smith">>, known_for_department |-> "Acting",
       popularity |-> 1, profile_path |-> "/a.jpg"],
      [id |-> 2, name |-> <<"John", "Smith">>, known_for_department |-> "Acting",
       popularity |-> 5, profile_path |-> ""],
      [id |-> 3, name |-> <<"John", "Smyth">>, known_for_department |-> "Acting",
       popularity |-> 9, profile_path |-> "/c.jpg"],
      [id |-> 4, name |-> <<"John", "Smith">>,
       known_for_department |-> "Directing",
       popularity |-> 20, profile_path |-> "/d.jpg"],
      [id |-> 5, name |-> <<"Jane", "Doe">>, known_for_department |-> "Acting",
       popularity |-> 30, profile_path |-> "/e.jpg"],
      [id |-> 6, name |-> <<"john", "smith">>, known_for_department |-> "Acting"],
      [id |-> 7, popularity |-> 2] }

\* the names asked for
Queries == { <<"John", "Smith">>, <<"john">>, <<"Zzz">> }

\* the first response of /search/person
FirstResponses ==
    { [kind |-> "nonjson"], [kind |-> "json", body |-> [status_code |-> 7]] }
    \cup { [kind |-> "json", body |-> [results |-> r]] :
             r \in SeqsUpTo(CandidatePool, MaxResults) }
    \cup { [kind |-> "json", body |-> [results |-> r, total_pages |-> n]] :
             r \in SeqsUpTo(CandidatePool, MaxResults), n \in 1..MaxTotalPages }

Pending == [done |-> FALSE]

ResolveInit ==
    /\ ad_pc = "call"
    /\ ad_actor \in Queries
    /\ ad_first \in FirstResponses
    /\ ad_extra \in ExtraWorlds
    /\ ad_fetched = [p \in 1..(MaxTotalPages + 1) |-> 0]
    /\ ad_res = <<>>
    /\ ad_data = <<>>
    /\ ad_details = DefaultDetails(ad_actor)
    /\ cr_pc = "idle" /\ cr_actor_id = NoneId /\ cr_response = None
    /\ cr_movies = <<>> /\ cr_tv_data = <<>> /\ cr_i = 1 /\ cr_tv_shows = <<>>
    /\ cr_result = None
    /\ hs_pc = "idle" /\ actors = <<>> /\ hs_first = <<>> /\ hs_cast = <<>>
    /\ actor_details = <<>> /\ actor_credits = <<>>
    /\ shared_movies = {} /\ shared_tv = {} /\ hs_batch = <<>> /\ hs_res = <<>>
    /\ hs_answers = <<>> /\ movie_links = <<>> /\ movies = <<>>
    /\ tv_links = <<>> /\ tv_shows = <<>> /\ hs_return = [returned |-> FALSE]

\* lines 113-132: the request, and a response that ends the call
ResolveFirstEnds ==
    /\ ad_pc = "call"
    /\ FirstEnds(ad_first)
    /\ ad_fetched' = [ad_fetched EXCEPT ![1] = @ + 1]
    /\ ad_pc' = IF FirstOutcome(ad_actor, ad_first).raised THEN "raised" ELSE "done"
    /\ ad_details' = FirstOutcome(ad_actor, ad_first).details
    /\ UNCHANGED <<ad_actor, ad_first, ad_extra, ad_res, ad_data>>
    /\ UNCHANGED notRes

\* lines 113-161 with a single page: no suspension up to the return
ResolveSinglePage ==
    /\ ad_pc = "call"
    /\ ~ FirstEnds(ad_first)
    /\ ~ HasMorePages(ad_first.body)
    /\ ad_fetched' = [ad_fetched EXCEPT ![1] = @ + 1]
    /\ ad_data' = ad_first.body.results
    /\ ad_pc' = IF FinishDetails(ad_actor, ad_first.body.results).raised
                THEN "raised" ELSE "done"
    /\ ad_details' = FinishDetails(ad_actor, ad_first.body.results).details
    /\ UNCHANGED <<ad_actor, ad_first, ad_extra, ad_res>>
    /\ UNCHANGED notRes

\* lines 135-136 and 163-181: fetch_more_pages starts one get_another_page
\* per page of range(2, pages); each sends its request and suspends
ResolveFetchMore ==
    /\ ad_pc = "call"
    /\ ~ FirstEnds(ad_first)
    /\ HasMorePages(ad_first.body)
    /\ LET pages == ExtraPages(ad_first.body.total_pages) IN
          /\ ad_fetched' = [p \in DOMAIN ad_fetched |->
                              IF p = 1 \/ p \in pages THEN ad_fetched[p] + 1
                              ELSE ad_fetched[p]]
          /\ ad_res' = [p \in pages |-> Pending]
    /\ ad_pc' = "gather"
    /\ UNCHANGED <<ad_actor, ad_first, ad_extra, ad_data, ad_details>>
    /\ UNCHANGED notRes

\* lines 183-188: one get_another_page resumes with its response
ResolvePageDone(p) ==
    /\ ad_pc = "gather"
    /\ ~ ad_res[p].done
    /\ IF PageRaises(ExtraResponse(ad_extra, p))
       THEN /\ ad_pc' = "raised"
            /\ UNCHANGED ad_res
       ELSE /\ ad_res' = [ad_res EXCEPT
                             ![p] = [done |-> TRUE,
                                     val |-> PageResults(ExtraResponse(ad_extra, p))]]
            /\ UNCHANGED ad_pc
    /\ UNCHANGED <<ad_actor, ad_first, ad_extra, ad_fetched, ad_data, ad_details>>
    /\ UNCHANGED notRes

\* lines 137-161: gather has every page; extend, filter, pick, return
ResolveFinish ==
    /\ ad_pc = "gather"
    /\ \A p \in DOMAIN ad_res : ad_res[p].done
    /\ LET data == Extend(ad_first.body.results,
                          [p \in DOMAIN ad_res |-> ad_res[p].val], DOMAIN ad_res)
       IN  /\ ad_data' = data
           /\ ad_pc' = IF FinishDetails(ad_actor, data).raised
                       THEN "raised" ELSE "done"
           /\ ad_details' = FinishDetails(ad_actor, data).details
    /\ UNCHANGED <<ad_actor, ad_first, ad_extra, ad_fetched, ad_res>>
    /\ UNCHANGED notRes

ResolveNext ==
    \/ ResolveFirstEnds
    \/ ResolveSinglePage
    \/ ResolveFetchMore
    \/ \E p \in DOMAIN ad_res : ResolvePageDone(p)
    \/ ResolveFinish

SpecResolve == ResolveInit /\ [][ResolveNext]_vars

-----------------------------------------------------------------------------
(* Properties of get_actor_details, under SpecResolve *)

\* min(N, 12)
CappedPages(n) == IF n > PageCap THEN PageCap ELSE n

\* the call went past the first response and that response reports more
\* than one page
ReportsMorePages ==
    IF FirstEnds(ad_first) THEN FALSE ELSE HasMorePages(ad_first.body)

\* C1: get_actor_details never raises, whatever the upstream answers (no
\* JSON, JSON without 'results' or whose picked entry lacks 'profile_path',
\* an empty list, no eligible candidate); and when the first response is
\* malformed or no candidate survives the filters it returns exactly
\* {id: None, name: query}.
C1_ResolveNeverRaises ==
    /\ ad_pc # "raised"
    /\ (/\ ad_pc = "done"
        /\ IF FirstEnds(ad_first) THEN TRUE
           ELSE Survivors(ad_actor, ad_data) = <<>>)
          => ad_details = DefaultDetails(ad_actor)

\* C2: when the first response reports total_pages = N > 1, the pages
\* requested are exactly 1..min(N, 12), each exactly once, and once the call
\* has returned with every page answered properly, the candidates of exactly
\* the pages 2..min(N, 12) have been appended to those of the first page.
C2_FetchesPagesUpToCap ==
    (ad_pc \in {"gather", "done"} /\ ReportsMorePages) =>
        LET n == ad_first.body.total_pages IN
        /\ \A p \in DOMAIN ad_fetched :
              ad_fetched[p] = IF p <= CappedPages(n) THEN 1 ELSE 0
        /\ (ad_pc = "done" /\ ad_extra = "proper")
              => { ad_data[i].id - 100 :
                     i \in (Len(ad_first.body.results) + 1)..Len(ad_data) }
                  = 2..CappedPages(n)

\* C9: whenever several surviving candidates carry the name of the returned
\* actor, the returned actor is the most popular of them, for single-word
\* and multi-word queries and in whatever order the upstream lists them.
C9_MostPopularHomonym ==
    (ad_pc = "done" /\ ad_details.id # NoneId) =>
        LET survivors == Survivors(ad_actor, ad_data) IN
        \A i, j \in 1..Len(survivors) :
            (survivors[i].id = ad_details.id /\ survivors[j].name = ad_details.name)
               => Get(survivors[j], "popularity", 0)
                     <= Get(survivors[i], "popularity", 0)

-----------------------------------------------------------------------------
(* One call of get_actor_credits, its TV loop taken one entry at a time *)

\* the longest cast list the upstream returns here
MaxCastLen == 3

\* cast entries of /person/{id}/combined_credits
CastPool ==
    { [id |-> 100, media_type |-> "movie", title |-> "Toy Story",
       release_date |-> <<49, 57, 57, 53, 45, 49, 49, 45, 50, 50>>,
       character |-> <<87, 111, 111, 100, 121>>],
      [id |-> 200, media_type |-> "movie", title |-> "Film Y",
       release_date |-> <<>>, character |-> <<82, 101, 120>>],
      [id |-> 200, media_type |-> "movie", title |-> "Making of Film Y",
       character |-> <<72, 105, 109, 115, 101, 108, 102>>],
      [id |-> 100, media_type |-> "movie", title |-> "Toy Story",
       release_date |-> <<49, 57, 57, 53, 45, 49, 49, 45, 50, 50>>,
       character |-> <<>>],
      [id |-> 300, media_type |-> "tv", name |-> "Show",
       first_air_date |-> <<50, 48, 48, 53, 45, 48, 49, 45, 48, 49>>,
       character |-> <<65, 108>>, episode_count |-> 5],
      [id |-> 300, media_type |-> "tv", name |-> "Show",
       first_air_date |-> <<>>, character |-> <<66, 111>>,
       episode_count |-> 1],
      [id |-> 400, media_type |-> "tv", name |-> "Other Show",
       character |-> <<90, 101, 100>>] }

\* what the credits request can come back as
CreditResponses(casts) ==
    { [kind |-> "nonjson"], [kind |-> "json", body |-> [status_code |-> 34]] }
    \cup { [kind |-> "json", body |-> [cast |-> c]] : c \in casts }

CreditsInit ==
    /\ cr_pc = "call"
    /\ cr_actor_id \in {NoneId, 31}
    /\ cr_response \in CreditResponses(SeqsUpTo(CastPool, MaxCastLen))
    /\ cr_movies = <<>>
    /\ cr_tv_data = <<>>
    /\ cr_i = 1
    /\ cr_tv_shows = <<>>
    /\ cr_result = None
    /\ ad_pc = "idle" /\ ad_actor = <<>> /\ ad_first = None /\ ad_extra = "proper"
    /\ ad_fetched = <<>> /\ ad_res = <<>> /\ ad_data = <<>> /\ ad_details = None
    /\ hs_pc = "idle" /\ actors = <<>> /\ hs_first = <<>> /\ hs_cast = <<>>
    /\ actor_details = <<>> /\ actor_credits = <<>>
    /\ shared_movies = {} /\ shared_tv = {} /\ hs_batch = <<>> /\ hs_res = <<>>
    /\ hs_answers = <<>> /\ movie_links = <<>> /\ movies = <<>>
    /\ tv_links = <<>> /\ tv_shows = <<>> /\ hs_return = [returned |-> FALSE]

\* lines 206-224: actor_id is None, the response is no JSON or has no 'cast'
CreditsReturnNone ==
    /\ cr_pc = "call"
    /\ CreditsAbsent(cr_actor_id, cr_response)
    /\ cr_result' = None
    /\ cr_pc' = "done"
    /\ UNCHANGED <<cr_actor_id, cr_response, cr_movies, cr_tv_data, cr_i,
                   cr_tv_shows>>
    /\ UNCHANGED notCred

\* lines 224-251: filter the cast, build movies, start the TV loop
CreditsBuildMovies ==
    /\ cr_pc = "call"
    /\ ~ CreditsAbsent(cr_actor_id, cr_response)
    /\ cr_movies' = BuildMovies(SelectSeq(FilteredCast(cr_response), IsMovie), <<>>)
    /\ cr_tv_data' = SelectSeq(FilteredCast(cr_response), IsTv)
    /\ cr_tv_shows' = <<>>
    /\ cr_i' = 1
    /\ cr_pc' = "tv_loop"
    /\ UNCHANGED <<cr_actor_id, cr_response, cr_result>>
    /\ UNCHANGED notCred

\* lines 252-259: one iteration of  for tv in tv_data
CreditsTvStep ==
    /\ cr_pc = "tv_loop"
    /\ cr_i <= Len(cr_tv_data)
    /\ cr_tv_shows' = SetDefault(cr_tv_shows,
                                 Get(cr_tv_data[cr_i], "id", NoneId),
                                 TvRecord(cr_tv_data[cr_i]))
    /\ cr_i' = cr_i + 1
    /\ UNCHANGED <<cr_pc, cr_actor_id, cr_response, cr_movies, cr_tv_data,
                   cr_result>>
    /\ UNCHANGED notCred

\* line 261
CreditsReturn ==
    /\ cr_pc = "tv_loop"
    /\ cr_i > Len(cr_tv_data)
    /\ cr_result' = [movies |-> cr_movies, tv |-> cr_tv_shows]
    /\ cr_pc' = "done"
    /\ UNCHANGED <<cr_actor_id, cr_response, cr_movies, cr_tv_data, cr_i,
                   cr_tv_shows>>
    /\ UNCHANGED notCred

CreditsNext ==
    \/ CreditsReturnNone
    \/ CreditsBuildMovies
    \/ CreditsTvStep
    \/ CreditsReturn

SpecCredits == CreditsInit /\ [][CreditsNext]_vars

-----------------------------------------------------------------------------
(* Properties of get_actor_credits, under SpecCredits *)

\* the index in tv_data of the first entry with show id k among the first n
FirstTvIndex(k, n) ==
    CHOOSE j \in 1..n :
        /\ Get(cr_tv_data[j], "id", NoneId) = k
        /\ \A h \in 1..(j - 1) : Get(cr_tv_data[h], "id", NoneId) # k

\* the show ids of the first n entries of tv_data
TvIdsUpTo(n) == { Get(cr_tv_data[j], "id", NoneId) : j \in 1..n }

\* C6: in get_actor_credits, when several TV entries of the cast carry the
\* same show id, the TV mapping holds the title, year, character and episode
\* count of the first of them: after any number of loop iterations, and in the
\* returned filmography, every show id maps to the record of its first entry,
\* so that a later entry with the same id changes nothing.
C6_FirstTvEntryWins ==
    /\ cr_pc = "tv_loop" =>
          /\ DOMAIN cr_tv_shows = TvIdsUpTo(cr_i - 1)
          /\ \A k \in DOMAIN cr_tv_shows :
                cr_tv_shows[k] = TvRecord(cr_tv_data[FirstTvIndex(k, cr_i - 1)])
    /\ (cr_pc = "done" /\ cr_result # None) =>
          /\ DOMAIN cr_result.tv = TvIdsUpTo(Len(cr_tv_data))
          /\ \A k \in DOMAIN cr_result.tv :
                cr_result.tv[k] =
                    TvRecord(cr_tv_data[FirstTvIndex(k, Len(cr_tv_data))])

\* get_actor_credits has returned a filmography built from two TV entries
\* with the same show id and different characters
C6_Witness ==
    /\ cr_pc = "done"
    /\ cr_result # None
    /\ \E i, j \in 1..Len(cr_tv_data) :
          /\ i < j
          /\ Get(cr_tv_data[i], "id", NoneId) = Get(cr_tv_data[j], "id", NoneId)
          /\ cr_tv_data[i].character # cr_tv_data[j].character
          /\ cr_result.tv[Get(cr_tv_data[i], "id", NoneId)].character
                = cr_tv_data[i].character

\* the year the specification gives a cast entry whose date field is `field`
YearOrSentinel(entry, field) ==
    IF field \notin DOMAIN entry THEN ND
    ELSE IF entry[field] = <<>> THEN ND
    ELSE Take(entry[field], 4)

\* C8: every record of the filmography get_actor_credits returns has a year
\* that is the first 4 characters of the release_date (movies) or
\* first_air_date (TV) of a cast entry with its id, or "n.d." when that field
\* is absent or empty; never the empty string.
C8_YearIsPrefixOrND ==
    (cr_pc = "done" /\ cr_result # None) =>
        /\ \A k \in DOMAIN cr_result.movies :
              /\ cr_result.movies[k].year # <<>>
              /\ \E i \in 1..Len(cr_response.body.cast) :
                    LET e == cr_response.body.cast[i] IN
                    /\ IsMovie(e)
                    /\ Get(e, "id", NoneId) = k
                    /\ cr_result.movies[k].year = YearOrSentinel(e, "release_date")
        /\ \A k \in DOMAIN cr_result.tv :
              /\ cr_result.tv[k].year # <<>>
              /\ \E i \in 1..Len(cr_response.body.cast) :
                    LET e == cr_response.body.cast[i] IN
                    /\ IsTv(e)
                    /\ Get(e, "id", NoneId) = k
                    /\ cr_result.tv[k].year = YearOrSentinel(e, "first_air_date")

-----------------------------------------------------------------------------
(* get_links, get_imdb_link *)

\* the imdb_id the upstream holds for a production
ImdbId(media_type, tmdb_id) == <<"tt", media_type, tmdb_id>>

\* isinstance(tmbd_id, int)
IsInt(tmbd_id) == tmbd_id # NoneId

\* how the upstream can answer /{media_type}/{id}/external_ids: JSON with
\* 'imdb_id', JSON without it, no JSON, or the request itself failing
LinkAnswers == {"imdb_id", "no_imdb_id", "not_json", "request_failed"}

\* session.request raises (line 293, outside the try)
LinkRaises(tmbd_id, answer) == IsInt(tmbd_id) /\ answer = "request_failed"

\* get_imdb_link(tmbd_id, media_type, session), given the upstream's answer
get_imdb_link(tmbd_id, media_type, answer) ==
    IF ~ IsInt(tmbd_id) THEN <<tmbd_id, <<>>>>
    ELSE IF answer = "not_json" THEN <<tmbd_id, <<>>>>
    ELSE IF answer = "imdb_id" THEN <<tmbd_id, ImdbId(media_type, tmbd_id)>>
    ELSE <<tmbd_id, <<>>>>

\* a faulty join: the results are taken as soon as one lookup has completed
AllDone_first_completed(res) == \E i \in 1..Len(res) : res[i].done

\* await asyncio.gather(...): every lookup of the batch has completed
AllDone(res) == \A i \in 1..Len(res) : res[i].done

\* dict(res): the mapping built from the (id, link) pairs of the results
DictOfPairs(res) ==
    LET f[i \in 0..Len(res)] ==
            IF i = 0 THEN <<>>
            ELSE IF res[i].done THEN DictSet(f[i - 1], res[i].val[1], res[i].val[2])
            ELSE f[i - 1]
    IN  f[Len(res)]

-----------------------------------------------------------------------------
(* handle_search *)

\* len(list(dict.fromkeys(actor_ids))) < 2, with a slip in the bound
SameActor_never(actor_ids) ==
    Cardinality({ actor_ids[i] : i \in 1..Len(actor_ids) }) < 1

\* len(list(dict.fromkeys(actor_ids))) < 2
SameActor(actor_ids) ==
    Cardinality({ actor_ids[i] : i \in 1..Len(actor_ids) }) < 2

\* set.intersection(*[set(list(ids[kind])) for ids in actor_credits])
SharedIds(credits, kind) ==
    (DOMAIN credits[1][kind]) \cap (DOMAIN credits[2][kind])

\* lines 67-72: the entry of the movie list for m_id
MovieCredit(credits, links, m_id) ==
    [title      |-> credits[1].movies[m_id].title,
     year       |-> credits[1].movies[m_id].year,
     characters |-> [a \in 1..2 |-> credits[a].movies[m_id].character],
     link       |-> links[m_id]]

\* lines 80-86: the entry of the TV list for m_id
TvCredit(credits, links, m_id) ==
    [title      |-> credits[1].tv[m_id].title,
     year       |-> credits[1].tv[m_id].year,
     characters |-> [a \in 1..2 |-> credits[a].tv[m_id].character],
     episodes   |-> [a \in 1..2 |-> credits[a].tv[m_id].episodes],
     link       |-> links[m_id]]

\* a faulty merge: the TV list is left out
Merge_movies_only(movie_list, tv_list) == movie_list

\* line 90: media = movies + tv_shows
Merge(movie_list, tv_list) == movie_list \o tv_list

\* m1['year'] < m2['year']
YearLess(m1, m2) == StrLess(m1.year, m2.year)

\* a faulty sort: ascending, then reversed, which reverses the ties
SortByYear_reversed(media) ==
    LET asc == SortedDesc(media, { ij \in IndexPairs(media) :
                                     YearLess(media[ij[2]], media[ij[1]]) })
    IN  [i \in 1..Len(asc) |-> asc[Len(asc) + 1 - i]]

\* line 91: sorted(media, key = lambda m : m['year'], reverse=True)
SortByYear(media) ==
    SortedDesc(media, { ij \in IndexPairs(media) :
                          YearLess(media[ij[1]], media[ij[2]]) })

\* the orders in which a set can be iterated
Orders(S) ==
    { f \in [1..Cardinality(S) -> S] :
        \A i, j \in 1..Cardinality(S) : i # j => f[i] # f[j] }

-----------------------------------------------------------------------------
(* One call of handle_search, the link lookups completing in any order *)

\* the number of credits of the longest filmography here
MaxCast == 4

\* the characters of the two actors
CharacterOf(a) ==
    IF a = 1 THEN <<87, 111, 111, 100, 121>> ELSE <<66, 117, 122, 122>>

\* the credits an actor can have, in the order the upstream lists them; the
\* fourth has no release date, the fifth no 'id', the last two are one show
AllCredits(a) ==
    << [id |-> 100, media_type |-> "movie", title |-> "Toy Story",
        release_date |-> <<49, 57, 57, 53, 45, 49, 49, 45, 50, 50>>,
        character |-> CharacterOf(a)],
       [id |-> 200, media_type |-> "movie", title |-> "Film Y",
        release_date |-> <<50, 48, 48, 53, 45, 48, 54, 45, 51, 48>>,
        character |-> CharacterOf(a)],
       [id |-> 300, media_type |-> "tv", name |-> "Show",
        first_air_date |-> <<49, 57, 57, 53, 45, 48, 51, 45, 48, 49>>,
        character |-> CharacterOf(a), episode_count |-> a + 2],
       [id |-> 400, media_type |-> "movie", title |-> "Film Z",
        character |-> CharacterOf(a)],
       [media_type |-> "movie", title |-> "Untitled",
        release_date |-> <<49, 57, 57, 53, 45, 48, 51, 45, 48, 49>>,
        character |-> CharacterOf(a)],
       [id |-> 100, media_type |-> "tv", name |-> "Toy Story Toons",
        first_air_date |-> <<50, 48, 48, 53, 45, 48, 49, 45, 48, 49>>,
        character |-> CharacterOf(a)],
       [id |-> 100, media_type |-> "tv", name |-> "Toy Story Toons",
        first_air_date |-> <<50, 48, 48, 53, 45, 48, 49, 45, 48, 49>>,
        character |-> <<72, 105, 109, 115, 101, 108, 102>>] >>

\* the elements of s at the indices in S, in order
AtIndices(s, S) ==
    LET f[i \in 0..Len(s)] ==
            IF i = 0 THEN <<>>
            ELSE IF i \in S THEN Append(f[i - 1], s[i]) ELSE f[i - 1]
    IN  f[Len(s)]

\* the cast lists of actor a: the selections of its first MaxCast credits
Casts(a) ==
    LET n == IF MaxCast < Len(AllCredits(a)) THEN MaxCast ELSE Len(AllCredits(a))
    IN  { AtIndices(AllCredits(a), S) : S \in SUBSET (1..n) }

\* a name asked for, with the first (and only) page the upstream answers
Searches ==
    LET results(r) == [kind |-> "json", body |-> [results |-> r]]
        smith2 == [id |-> 2, name |-> <<"John", "Smith">>,
                   known_for_department |-> "Acting",
                   popularity |-> 5, profile_path |-> ""]
        smyth3 == [id |-> 3, name |-> <<"John", "Smyth">>,
                   known_for_department |-> "Acting",
                   popularity |-> 9, profile_path |-> "/c.jpg"]
        doe5   == [id |-> 5, name |-> <<"Jane", "Doe">>,
                   known_for_department |-> "Acting",
                   popularity |-> 30, profile_path |-> "/e.jpg"]
    IN  { [actor |-> <<"John", "Smith">>, first |-> results(<<smith2>>)],
          [actor |-> <<"john">>,          first |-> results(<<doe5, smith2>>)],
          [actor |-> <<"John", "Smith">>, first |-> results(<<smyth3>>)],
          [actor |-> <<"Zzz">>,           first |-> results(<<doe5>>)],
          [actor |-> <<"john">>,          first |-> [kind |-> "nonjson"]],
          [actor |-> <<"John", "Smith">>,
           first |-> [kind |-> "json", body |-> [status_code |-> 7]]] }

SearchInit ==
    /\ hs_pc = "call"
    /\ \E s1, s2 \in Searches :
          /\ actors = <<s1.actor, s2.actor>>
          /\ hs_first = <<s1.first, s2.first>>
    /\ hs_cast \in CreditResponses(Casts(1)) \X CreditResponses(Casts(2))
    /\ actor_details = <<>> /\ actor_credits = <<>>
    /\ shared_movies = {} /\ shared_tv = {} /\ hs_batch = <<>> /\ hs_res = <<>>
    /\ hs_answers = <<>> /\ movie_links = <<>> /\ movies = <<>>
    /\ tv_links = <<>> /\ tv_shows = <<>> /\ hs_return = [returned |-> FALSE]
    /\ cr_pc = "idle" /\ cr_actor_id = NoneId /\ cr_response = None
    /\ cr_movies = <<>> /\ cr_tv_data = <<>> /\ cr_i = 1 /\ cr_tv_shows = <<>>
    /\ cr_result = None
    /\ ad_pc = "idle" /\ ad_actor = <<>> /\ ad_first = None /\ ad_extra = "proper"
    /\ ad_fetched = <<>> /\ ad_res = <<>> /\ ad_data = <<>> /\ ad_details = None

\* line 36: the two calls of get_actor_details
Resolved == [i \in 1..2 |-> get_actor_details(actors[i], hs_first[i], "proper")]

\* lines 36-40, neither call of get_actor_details raising
ResolvedDetails == [i \in 1..2 |-> Resolved[i].details]
ResolvedIds == [i \in 1..2 |-> ResolvedDetails[i].id]
FetchedCredits == [i \in 1..2 |-> get_actor_credits(ResolvedIds[i], hs_cast[i])]

\* lines 43-60: the conditions under which handle_search returns None
ReturnsNone(ids, credits) ==
    IF \E i \in 1..2 : ids[i] = NoneId \/ credits[i] = None THEN TRUE
    ELSE IF SameActor(ids) THEN TRUE
    ELSE SharedIds(credits, "movies") = {} /\ SharedIds(credits, "tv") = {}

\* return None, actor_details
NoneReturned(details) ==
    [returned |-> TRUE, media_is_none |-> TRUE, actor_details |-> details]

\* return media, actor_details
MediaReturned(media, details) ==
    [returned |-> TRUE, media_is_none |-> FALSE, media |-> media,
     actor_details |-> details]

\* line 36: a call of get_actor_details raises
SearchResolveRaises ==
    /\ hs_pc = "call"
    /\ \E i \in 1..2 : Resolved[i].raised
    /\ hs_pc' = "raised_resolve"
    /\ UNCHANGED <<actors, hs_first, hs_cast, actor_details, actor_credits,
                   shared_movies, shared_tv, hs_batch, hs_res, hs_answers,
                   movie_links, movies, tv_links, tv_shows, hs_return>>
    /\ UNCHANGED notSrch

\* lines 36-60: resolve, fetch the credits, and return None
SearchReturnsNone ==
    /\ hs_pc = "call"
    /\ \A i \in 1..2 : ~ Resolved[i].raised
    /\ ReturnsNone(ResolvedIds, FetchedCredits)
    /\ actor_details' = ResolvedDetails
    /\ actor_credits' = FetchedCredits
    /\ hs_return' = NoneReturned(ResolvedDetails)
    /\ hs_pc' = "done"
    /\ UNCHANGED <<actors, hs_first, hs_cast, shared_movies, shared_tv, hs_batch,
                   hs_res, hs_answers, movie_links, movies, tv_links, tv_shows>>
    /\ UNCHANGED notSrch

\* lines 36-60: resolve, fetch the credits, and find shared credits
SearchFindsShared ==
    /\ hs_pc = "call"
    /\ \A i \in 1..2 : ~ Resolved[i].raised
    /\ ~ ReturnsNone(ResolvedIds, FetchedCredits)
    /\ actor_details' = ResolvedDetails
    /\ actor_credits' = FetchedCredits
    /\ shared_movies' = SharedIds(FetchedCredits, "movies")
    /\ shared_tv' = SharedIds(FetchedCredits, "tv")
    /\ hs_pc' = "movies"
    /\ UNCHANGED <<actors, hs_first, hs_cast, hs_batch, hs_res, hs_answers,
                   movie_links, movies, tv_links, tv_shows, hs_return>>
    /\ UNCHANGED notSrch

\* get_links (lines 267-268): one get_imdb_link per id, in the order the set
\* is iterated; next_pc names the batch
StartLookups(ids, next_pc) ==
    /\ \E order \in Orders(ids) : hs_batch' = order
    /\ hs_res' = [i \in 1..Cardinality(ids) |-> Pending]
    /\ hs_answers' = [i \in 1..Cardinality(ids) |-> "none"]
    /\ hs_pc' = next_pc

\* lines 62-64: shared movies, so their links are looked up
SearchStartMovieLinks ==
    /\ hs_pc = "movies"
    /\ shared_movies # {}
    /\ StartLookups(shared_movies, "movie_lookups")
    /\ UNCHANGED <<actors, hs_first, hs_cast, actor_details, actor_credits,
                   shared_movies, shared_tv, movie_links, movies, tv_links,
                   tv_shows, hs_return>>
    /\ UNCHANGED notSrch

\* lines 73-74: no shared movies
SearchNoMovies ==
    /\ hs_pc = "movies"
    /\ shared_movies = {}
    /\ movies' = <<>>
    /\ hs_pc' = "tv"
    /\ UNCHANGED <<actors, hs_first, hs_cast, actor_details, actor_credits,
                   shared_movies, shared_tv, hs_batch, hs_res, hs_answers,
                   movie_links, tv_links, tv_shows, hs_return>>
    /\ UNCHANGED notSrch

\* the media_type of the batch being looked up
BatchType == IF hs_pc = "movie_lookups" THEN "movie" ELSE "tv"

\* lines 288-301: the get_imdb_link of hs_batch[i] runs to its return, or its
\* request fails and the exception leaves gather, asyncio.run and
\* handle_search
SearchLinkDone(i) ==
    /\ hs_pc \in {"movie_lookups", "tv_lookups"}
    /\ ~ hs_res[i].done
    /\ \E answer \in LinkAnswers :
          /\ hs_answers' = [hs_answers EXCEPT
                               ![i] = IF IsInt(hs_batch[i]) THEN answer
                                      ELSE "not_asked"]
          /\ IF LinkRaises(hs_batch[i], answer)
             THEN /\ hs_pc' = "raised_links"
                  /\ UNCHANGED hs_res
             ELSE /\ hs_res' = [hs_res EXCEPT
                                  ![i] = [done |-> TRUE,
                                          val  |-> get_imdb_link(hs_batch[i],
                                                                 BatchType, answer)]]
                  /\ UNCHANGED hs_pc
    /\ UNCHANGED <<actors, hs_first, hs_cast, actor_details, actor_credits,
                   shared_movies, shared_tv, hs_batch, movie_links, movies,
                   tv_links, tv_shows, hs_return>>
    /\ UNCHANGED notSrch

\* line 64: gather has every result; movie_links = dict(...)
SearchMovieLinksJoin ==
    /\ hs_pc = "movie_lookups"
    /\ AllDone(hs_res)
    /\ movie_links' = DictOfPairs(hs_res)
    /\ hs_pc' = "build_movies"
    /\ UNCHANGED <<actors, hs_first, hs_cast, actor_details, actor_credits,
                   shared_movies, shared_tv, hs_batch, hs_res, hs_answers, movies,
                   tv_links, tv_shows, hs_return>>
    /\ UNCHANGED notSrch

\* lines 67-72: the movie list, in the iteration order of shared_movies
SearchBuildMovies ==
    /\ hs_pc = "build_movies"
    /\ movies' = [i \in 1..Len(hs_batch) |->
                     MovieCredit(actor_credits, movie_links, hs_batch[i])]
    /\ hs_pc' = "tv"
    /\ UNCHANGED <<actors, hs_first, hs_cast, actor_details, actor_credits,
                   shared_movies, shared_tv, hs_batch, hs_res, hs_answers,
                   movie_links, tv_links, tv_shows, hs_return>>
    /\ UNCHANGED notSrch

\* lines 76-78: shared TV shows, so their links are looked up
SearchStartTvLinks ==
    /\ hs_pc = "tv"
    /\ shared_tv # {}
    /\ StartLookups(shared_tv, "tv_lookups")
    /\ UNCHANGED <<actors, hs_first, hs_cast, actor_details, actor_credits,
                   shared_movies, shared_tv, movie_links, movies, tv_links,
                   tv_shows, hs_return>>
    /\ UNCHANGED notSrch

\* lines 87-88: no shared TV shows
SearchNoTv ==
    /\ hs_pc = "tv"
    /\ shared_tv = {}
    /\ tv_shows' = <<>>
    /\ hs_pc' = "merge"
    /\ UNCHANGED <<actors, hs_first, hs_cast, actor_details, actor_credits,
                   shared_movies, shared_tv, hs_batch, hs_res, hs_answers,
                   movie_links, movies, tv_links, hs_return>>
    /\ UNCHANGED notSrch

\* line 78: gather has every result; tv_links = dict(...)
SearchTvLinksJoin ==
    /\ hs_pc = "tv_lookups"
    /\ AllDone(hs_res)
    /\ tv_links' = DictOfPairs(hs_res)
    /\ hs_pc' = "build_tv"
    /\ UNCHANGED <<actors, hs_first, hs_cast, actor_details, actor_credits,
                   shared_movies, shared_tv, hs_batch, hs_res, hs_answers,
                   movie_links, movies, tv_shows, hs_return>>
    /\ UNCHANGED notSrch

\* lines 80-86: the TV list, in the iteration order of shared_tv
SearchBuildTv ==
    /\ hs_pc = "build_tv"
    /\ tv_shows' = [i \in 1..Len(hs_batch) |->
                       TvCredit(actor_credits, tv_links, hs_batch[i])]
    /\ hs_pc' = "merge"
    /\ UNCHANGED <<actors, hs_first, hs_cast, actor_details, actor_credits,
                   shared_movies, shared_tv, hs_batch, hs_res, hs_answers,
                   movie_links, movies, tv_links, hs_return>>
    /\ UNCHANGED notSrch

\* lines 90-93: merge, sort by year, return
SearchReturnsMedia ==
    /\ hs_pc = "merge"
    /\ hs_return' = MediaReturned(SortByYear(Merge(movies, tv_shows)),
                                  actor_details)
    /\ hs_pc' = "done"
    /\ UNCHANGED <<actors, hs_first, hs_cast, actor_details, actor_credits,
                   shared_movies, shared_tv, hs_batch, hs_res, hs_answers,
                   movie_links, movies, tv_links, tv_shows>>
    /\ UNCHANGED notSrch

SearchNext ==
    \/ SearchResolveRaises
    \/ SearchReturnsNone
    \/ SearchFindsShared
    \/ SearchStartMovieLinks
    \/ SearchNoMovies
    \/ \E i \in 1..Len(hs_res) : SearchLinkDone(i)
    \/ SearchMovieLinksJoin
    \/ SearchBuildMovies
    \/ SearchStartTvLinks
    \/ SearchNoTv
    \/ SearchTvLinksJoin
    \/ SearchBuildTv
    \/ SearchReturnsMedia

Spec == SearchInit /\ [][SearchNext]_vars

-----------------------------------------------------------------------------
(* Properties of handle_search and get_links, under Spec *)

\* the link the answer of the upstream stands for
AnsweredLink(media_type, tmdb_id, answer) ==
    IF answer = "imdb_id" THEN ImdbId(media_type, tmdb_id) ELSE <<>>

\* links maps exactly the ids of the batch, each to the link its own lookup
\* was answered with
LinksMatchAnswers(links, media_type) ==
    /\ DOMAIN links = { hs_batch[i] : i \in 1..Len(hs_batch) }
    /\ \A i \in 1..Len(hs_batch) :
          links[hs_batch[i]] = AnsweredLink(media_type, hs_batch[i], hs_answers[i])

\* C3: a batch of get_links in which one lookup fails (non-integer id, failed
\* request, unparseable response) still completes: no failure of a lookup
\* ends handle_search, and in the mapping of the completed batch the failed
\* id has the empty string and every other id its own link.
C3_FailedLookupIsIsolated ==
    /\ hs_pc # "raised_links"
    /\ hs_pc = "build_movies" => LinksMatchAnswers(movie_links, "movie")
    /\ hs_pc = "build_tv" => LinksMatchAnswers(tv_links, "tv")

\* both actors resolved, to different ids, and both filmographies present
DistinctWithCredits ==
    /\ hs_pc = "done"
    /\ \A i \in 1..2 : actor_details[i].id # NoneId /\ actor_credits[i] # None
    /\ actor_details[1].id # actor_details[2].id

\* the number of entries of the list s equal to x
Count(s, x) == Cardinality({ i \in 1..Len(s) : s[i] = x })

\* C4: for two actors resolved to distinct ids with both filmographies
\* present, the media list handle_search returns holds exactly one shared
\* credit for each id in the intersection of the two movie mappings, exactly
\* one for each id in the intersection of the two TV mappings, and nothing
\* else; it is None exactly when both intersections are empty.
C4_MediaIsTheIntersection ==
    DistinctWithCredits =>
        LET sm == (DOMAIN actor_credits[1].movies) \cap (DOMAIN actor_credits[2].movies)
            st == (DOMAIN actor_credits[1].tv) \cap (DOMAIN actor_credits[2].tv)
        IN  /\ hs_return.media_is_none <=> (sm = {} /\ st = {})
            /\ ~ hs_return.media_is_none =>
                  /\ Len(hs_return.media) = Cardinality(sm) + Cardinality(st)
                  /\ \A m \in sm :
                        Count(hs_return.media,
                              MovieCredit(actor_credits, movie_links, m)) = 1
                  /\ \A t \in st :
                        Count(hs_return.media,
                              TvCredit(actor_credits, tv_links, t)) = 1

\* handle_search has returned a list with a shared movie and a shared show,
\* while one of the actors has a movie the other has not
C4_Witness ==
    /\ DistinctWithCredits
    /\ ~ hs_return.media_is_none
    /\ shared_movies # {} /\ shared_tv # {}
    /\ DOMAIN actor_credits[1].movies # DOMAIN actor_credits[2].movies

\* C5: when both queries resolve to the same actor id, handle_search returns
\* None for the media list, with the details of both actors, whatever the
\* filmographies hold and even when the two query strings differ.
C5_SameActorGivesNone ==
    (/\ hs_pc \notin {"call", "raised_resolve"}
     /\ actor_details[1].id # NoneId
     /\ actor_details[1].id = actor_details[2].id)
       => /\ hs_pc = "done"
          /\ hs_return = NoneReturned(actor_details)
          /\ Len(hs_return.actor_details) = 2

\* handle_search has returned for two different query strings resolved to
\* the same id, both filmographies sharing a movie
C5_Witness ==
    /\ hs_pc = "done"
    /\ actors[1] # actors[2]
    /\ actor_details[1].id # NoneId
    /\ actor_details[1].id = actor_details[2].id
    /\ actor_credits[1] # None /\ actor_credits[2] # None
    /\ SharedIds(actor_credits, "movies") # {}
    /\ hs_return.media_is_none

\* the years of the entries of s, as a set
YearsOf(s) == { s[i].year : i \in 1..Len(s) }

\* the entries of s with year y, in order
WithYear(s, y) == LET Has(m) == m.year = y IN SelectSeq(s, Has)

\* C7: the media list handle_search returns is ordered by year descending
\* under string comparison, and the entries with the same year are in the
\* order they had in the merged list, movies then TV shows.
C7_SortedByYearStable ==
    (hs_pc = "done" /\ ~ hs_return.media_is_none) =>
        LET media == hs_return.media IN
        /\ \A i, j \in 1..Len(media) :
              i < j => ~ StrLess(media[i].year, media[j].year)
        /\ \A y \in YearsOf(media) \cup YearsOf(movies \o tv_shows) :
              WithYear(media, y) = WithYear(movies \o tv_shows, y)

\* handle_search has returned a list in which a shared movie and a shared
\* show have the same year, and which is not the merged list as it was
C7_Witness ==
    /\ hs_pc = "done"
    /\ ~ hs_return.media_is_none
    /\ hs_return.media # movies \o tv_shows
    /\ \E i \in 1..Len(movies), j \in 1..Len(tv_shows) :
          movies[i].year = tv_shows[j].year

\* C10: whatever order the lookups of a get_links batch complete in, the
\* engine builds the shared credits of the batch only once every lookup has
\* completed, and the mapping then has exactly one entry per id of the batch,
\* holding the result of that id's own lookup.
C10_JoinBeforeBuild ==
    /\ hs_pc = "build_movies" =>
          /\ \A i \in 1..Len(hs_res) : hs_res[i].done
          /\ LinksMatchAnswers(movie_links, "movie")
    /\ hs_pc = "build_tv" =>
          /\ \A i \in 1..Len(hs_res) : hs_res[i].done
          /\ LinksMatchAnswers(tv_links, "tv")

\* a batch of at least two lookups has been joined, the lookups answered
\* differently
C10_Witness ==
    /\ hs_pc = "build_movies"
    /\ Len(hs_batch) >= 2
    /\ \E i, j \in 1..Len(hs_batch) :
          hs_answers[i] = "imdb_id" /\ hs_answers[j] = "not_json"

=============================================================================
